---- MODULE Spec2Model ----
(***************************************************************************)
(* A model of sheet2json (src/sheet2json/sheet2json.py): the conversion of *)
(* spreadsheet rows into receipts (convert), the row extractors and field  *)
(* codecs it calls, the tax consistency check, and the error handling of   *)
(* main.                                                                   *)
(*                                                                         *)
(* Representation.  A spreadsheet cell is a record [type, text, value]:    *)
(* type is "float" for a numeric cell and "str" for a string cell; text is *)
(* the string's content; value is the number a numeric cell holds, or the  *)
(* number a string cell that spells a decimal literal parses to.  Amounts  *)
(* are exact integers counting hundredths (100.00 is 10000), tax rates are *)
(* counted in tenths, so that price * quantity * rate counts units of      *)
(* 10^-5.  Python computes check_good in binary floating point.  On the    *)
(* amounts modelled the prices, quantities and products are computed       *)
(* exactly, and the only rounding that can change the comparison with 0.01 *)
(* is that of float() on the declared tax amount: the double nearest to    *)
(* 19.99 lies below it, so 100*1*0.2 - 19.99 evaluates to                  *)
(* 0.010000000000001563 > 0.01, while the double nearest to 9.99 lies      *)
(* above it and 100*1*0.1 - 9.99 evaluates to 0.009999999999999787.        *)
(* Rounding records, for the amounts that are not whole numbers, on which  *)
(* side of the decimal its double lies.                                    *)
(***************************************************************************)
EXTENDS Integers, Sequences, FiniteSets, TLC

VARIABLES
    empty_sheet,   \* TRUE when the sheet has no row at all (no header row)
    rows,          \* the data rows that follow the header row, in order
    out_is_stdout, \* TRUE when --output-file is the default sys.stdout
    pc,            \* position of the run: start, loop, dump, returned,
                   \* raised, crashed, handled, exit
    pos,           \* number of data rows taken from the row iterator
    receipts,      \* the dict receipts, as a sequence of [k, v] in insertion order
    row_id,        \* the counter row_id of convert
    uuid,          \* number of identifiers uuid4 has handed out
    lookup,        \* outcome of the MX query made for the latest row, "none" if none
    error,         \* the InvalidFileFormatException raised, [msg, row_id]
    exc,           \* name of another exception that left convert, "" if none
    stdout,        \* what was written to sys.stdout
    stderr,        \* what was written to sys.stderr
    outfile,       \* what was written to a named output file
    exit_status    \* exit status of the process, -1 while it runs

vars == <<empty_sheet, rows, out_is_stdout, pc, pos, receipts, row_id, uuid,
          lookup, error, exc, stdout, stderr, outfile, exit_status>>

Range(f) == {f[j] : j \in DOMAIN f}

Abs(x) == IF x < 0 THEN -x ELSE x

----------------------------------------------------------------------------
(* Program constants                                                       *)

RowWidth == 15

None == 0

FirstRowId == 2

Tolerance == 1000

RECEIPT_DT_VALUES == {"sale", "sale_refund"}

GOOD_SMC_VALUES == {"full_prepayment", "prepayment", "advance", "full_payment",
                    "partial_payment", "credit", "credit_payment"}

GOOD_TS_VALUES == {"vat10", "vat20"}

GOOD_TS_NUM_VALUES == [vat10 |-> 1, vat20 |-> 2]

----------------------------------------------------------------------------
(* Cells                                                                   *)

Num(n) == [type |-> "float", text |-> "", value |-> n]

StrNum(n) == [type |-> "str", text |-> "numeral", value |-> n]

Str(s) == [type |-> "str", text |-> s, value |-> 0]

IsStr(c) == c.type = "str"

\* float(input_value) succeeds on a number and on a string spelling one
ParsesAsFloat(c) == c.type = "float" \/ c.text = "numeral"

Float(c) == c.value

----------------------------------------------------------------------------
(* Results: kind is "ok", "invalid" (InvalidFileFormatException with msg)  *)
(* or "crash" (another exception, named by msg).                           *)

NoError == [msg |-> "", row_id |-> None]

----------------------------------------------------------------------------
(* E-mail validation.  The regular expressions are applied to a table of   *)
(* sample addresses; each entry records what the expressions find in it.   *)

EmailSamples ==
    [text : {"user@example.com"}, has_at : {TRUE}, user_ok : {TRUE},
     domain : {"hostname"}]
    \cup [text : {"nouser"}, has_at : {FALSE}, user_ok : {TRUE},
          domain : {"other"}]
    \cup [text : {"bad user@example.com"}, has_at : {TRUE}, user_ok : {FALSE},
          domain : {"hostname"}]
    \cup [text : {"user@ex ample"}, has_at : {TRUE}, user_ok : {TRUE},
          domain : {"other"}]
    \cup [text : {"user@[127.0.0.1]"}, has_at : {TRUE}, user_ok : {TRUE},
          domain : {"literal"}]

EmailTexts == {e.text : e \in EmailSamples}

Sample(text) == CHOOSE e \in EmailSamples : e.text = text

\* IPv4Address and IPv6Address are handed the module ipaddress instead of
\* the argument: both raise ValueError, whatever the argument
check_ipaddress(ip_address) == FALSE

check_email_domain(domain_part) ==
    \/ domain_part = "hostname"
    \/ domain_part = "literal" /\ check_ipaddress(domain_part)

\* TRUE when validate_email returns the (user, domain) pair, FALSE for None
validate_email(text) ==
    /\ Sample(text).has_at
    /\ Sample(text).user_ok
    /\ check_email_domain(Sample(text).domain)

\* Outcomes of dns.resolver.query: an answer, or the exception it raises
MxAnswer == "answer"

MxCaught == {"NXDOMAIN", "YXDOMAIN", "NoAnswer"}

MxOther == {"Timeout", "NoNameservers"}

MxOutcomes == {MxAnswer} \cup MxCaught \cup MxOther

\* A mutant: every lookup error outside the three caught ones counts as success
check_email_domain_mx_lenient(answer) ==
    IF answer \in MxCaught THEN "False" ELSE "True"

\* "True", "False", or the name of the exception that leaves the function:
\* only the three except clauses catch, anything else propagates
check_email_domain_mx(answer) ==
    IF answer = MxAnswer THEN "True"
    ELSE IF answer \in MxCaught THEN "False"
    ELSE answer

\* [kind, msg, lookup]: lookup is the MX outcome, "none" when no query was made
process_em(text, answer) ==
    IF text = "" THEN [kind |-> "ok", msg |-> "", lookup |-> "none"]
    ELSE IF ~validate_email(text)
    THEN [kind |-> "invalid",
          msg |-> "Invalid i.em (e-mail address) value: invalid e-mail format",
          lookup |-> "none"]
    ELSE LET mx == check_email_domain_mx(answer) IN
         IF mx = "True" THEN [kind |-> "ok", msg |-> "", lookup |-> answer]
         ELSE IF mx = "False"
         THEN [kind |-> "invalid",
               msg |-> "Invalid i.em (e-mail address) value: domain name does not exist, or does not have MX record",
               lookup |-> answer]
         ELSE [kind |-> "crash", msg |-> mx, lookup |-> answer]

----------------------------------------------------------------------------
(* Field codecs: the message of the exception raised, "" when none         *)

process_dt(input_value) ==
    IF input_value \notin RECEIPT_DT_VALUES
    THEN "Invalid dt (operation type) value" ELSE ""

process_smc(input_value) ==
    IF input_value \notin GOOD_SMC_VALUES
    THEN "Invalid i.smc (calculation form) value" ELSE ""

process_ts(input_value) == "OSN"

process_ph(input_value) == input_value

process_i_p(input_value) ==
    IF ParsesAsFloat(input_value) THEN "" ELSE "Invalid i.p (price) value"

process_i_q(input_value) ==
    IF ParsesAsFloat(input_value) THEN "" ELSE "Invalid i.q (quantity) value"

process_i_s(input_value) ==
    IF ParsesAsFloat(input_value) THEN "" ELSE "Invalid i.s (sum) value"

process_i_ts(input_value) ==
    IF input_value \notin GOOD_TS_VALUES
    THEN "Invalid i.ts (tax rate) value" ELSE ""

process_i_tv(input_value) ==
    IF ParsesAsFloat(input_value) THEN "" ELSE "Invalid i.tv (tax amount) value"

process_i_sco(input_value) == input_value

----------------------------------------------------------------------------
(* Row extractors.  A row is a record: w is len(input_row), c0 the first   *)
(* cell, and the other fields the cells of columns 2 to 14 (key, dt, em,   *)
(* ph, tsys, n, p, q, s, ts, tv, smc, sco).                                *)

\* A mutant: the width test is off by one
row_too_narrow_off_by_one(input_row) == input_row.w < RowWidth - 1

row_too_narrow(input_row) == input_row.w < RowWidth

\* [kind, msg, receipt, uuid, lookup]; the identifier is drawn while the
\* result dict is built, before process_dt runs
get_row_receipt(input_row, ids, answer) ==
    LET result == [id |-> ids + 1, dt |-> input_row.dt, cr |-> 0,
                   ts |-> process_ts(input_row.tsys), i |-> <<>>,
                   em |-> input_row.em.text, ph |-> process_ph(input_row.ph)]
        em == process_em(input_row.em.text, answer)
    IN  IF row_too_narrow(input_row)
        THEN [kind |-> "invalid", msg |-> "Invalid row width",
              receipt |-> result, uuid |-> ids, lookup |-> "none"]
        ELSE IF process_dt(input_row.dt) # ""
        THEN [kind |-> "invalid", msg |-> process_dt(input_row.dt),
              receipt |-> result, uuid |-> ids + 1, lookup |-> "none"]
        ELSE IF ~IsStr(input_row.em) \/ input_row.em.text = ""
        THEN [kind |-> "invalid", msg |-> "No e-mail given",
              receipt |-> result, uuid |-> ids + 1, lookup |-> "none"]
        ELSE [kind |-> em.kind, msg |-> em.msg,
              receipt |-> result, uuid |-> ids + 1, lookup |-> em.lookup]

Good(input_row) ==
    [n |-> input_row.n, p |-> Float(input_row.p), q |-> Float(input_row.q),
     s |-> Float(input_row.s), ts |-> input_row.ts,
     tv |-> Float(input_row.tv), smc |-> input_row.smc,
     sco |-> process_i_sco(input_row.sco)]

\* The message of the first codec that fails, in the order the dict
\* literal evaluates them; "" when the good is built
get_row_good_error(input_row) ==
    IF process_i_p(input_row.p) # "" THEN process_i_p(input_row.p)
    ELSE IF process_i_q(input_row.q) # "" THEN process_i_q(input_row.q)
    ELSE IF process_i_s(input_row.s) # "" THEN process_i_s(input_row.s)
    ELSE IF process_i_ts(input_row.ts) # "" THEN process_i_ts(input_row.ts)
    ELSE IF process_i_tv(input_row.tv) # "" THEN process_i_tv(input_row.tv)
    ELSE process_smc(input_row.smc)

\* total_without_vat * vat - good['tv'], in units of 10^-5
Delta(good) == good.p * good.q * GOOD_TS_NUM_VALUES[good.ts] - 1000 * good.tv

\* Amounts (in hundredths) whose nearest double lies above, and below, them
FloatAbove == {996, 997, 998, 999, 1005, 1996, 1998, 2001, 2003, 2005}

FloatBelow == {995, 1001, 1002, 1003, 1004, 1995, 1997, 1999, 2002, 2004}

\* Sign of float(x) - x for the amount x
Rounding(x) ==
    IF x \in FloatAbove THEN 1 ELSE IF x \in FloatBelow THEN -1 ELSE 0

\* TRUE when check_good raises: abs(delta) > 0.01, delta being computed
\* with the double of the tax amount.  When the exact delta is +0.01 or
\* -0.01 the computed one exceeds the tolerance exactly when the double of
\* the tax amount lies on the far side of it.
check_good(good) ==
    \/ Abs(Delta(good)) > Tolerance
    \/ Abs(Delta(good)) = Tolerance /\ Delta(good) * Rounding(good.tv) < 0

----------------------------------------------------------------------------
(* The aggregation loop of convert                                         *)

Keys(map) == {map[j].k : j \in DOMAIN map}

Values(map) == [j \in DOMAIN map |-> map[j].v]

\* A mutant: the receipt of every row replaces the one stored under its key
install_overwriting(map, bill_id, row_receipt) ==
    IF bill_id \in Keys(map)
    THEN [j \in DOMAIN map |->
            IF map[j].k = bill_id THEN [k |-> bill_id, v |-> row_receipt]
            ELSE map[j]]
    ELSE Append(map, [k |-> bill_id, v |-> row_receipt])

\* if row_bill_id not in receipts: receipts[row_bill_id] = row_receipt
install(map, bill_id, row_receipt) ==
    IF bill_id \in Keys(map) THEN map
    ELSE Append(map, [k |-> bill_id, v |-> row_receipt])

\* A mutant: the good is appended and the total left alone
accumulate_no_total(map, bill_id, row_good) ==
    [j \in DOMAIN map |->
        IF map[j].k = bill_id
        THEN [k |-> bill_id, v |-> [map[j].v EXCEPT !.i = Append(@, row_good)]]
        ELSE map[j]]

\* row_receipt['i'].append(row_good); row_receipt['cr'] += row_good['s'],
\* row_receipt being the receipt the dict holds under the key
accumulate(map, bill_id, row_good) ==
    [j \in DOMAIN map |->
        IF map[j].k = bill_id
        THEN [k |-> bill_id,
              v |-> [map[j].v EXCEPT !.i = Append(@, row_good),
                                     !.cr = @ + row_good.s]]
        ELSE map[j]]

\* if isinstance(row[0], str): if not row[0]: break
is_sentinel(row) == IsStr(row.c0) /\ row.c0.text = ""

\* The body of the try block for one row: [kind, msg, receipts, uuid, lookup]
\* with kind "ok", "break", "invalid" or "crash".  row[0] of a row without
\* cells raises IndexError.
row_outcome(map, ids, row, answer) ==
    IF row.w = 0
    THEN [kind |-> "crash", msg |-> "IndexError", receipts |-> map,
          uuid |-> ids, lookup |-> "none"]
    ELSE IF is_sentinel(row)
    THEN [kind |-> "break", msg |-> "", receipts |-> map,
          uuid |-> ids, lookup |-> "none"]
    ELSE LET h == get_row_receipt(row, ids, answer) IN
         IF h.kind # "ok"
         THEN [kind |-> h.kind, msg |-> h.msg, receipts |-> map,
               uuid |-> h.uuid, lookup |-> h.lookup]
         ELSE LET installed == install(map, row.key, h.receipt) IN
              IF get_row_good_error(row) # ""
              THEN [kind |-> "invalid", msg |-> get_row_good_error(row),
                    receipts |-> installed, uuid |-> h.uuid,
                    lookup |-> h.lookup]
              ELSE IF check_good(Good(row))
              THEN [kind |-> "invalid",
                    msg |-> "Invalid i.tv value (contradicts with i.p, i.q and i.ts)",
                    receipts |-> installed, uuid |-> h.uuid,
                    lookup |-> h.lookup]
              ELSE [kind |-> "ok", msg |-> "",
                    receipts |-> accumulate(installed, row.key, Good(row)),
                    uuid |-> h.uuid, lookup |-> h.lookup]

\* A mutant: a failing row is skipped and the loop goes on
pc_after_row_skipping(kind) ==
    IF kind = "break" THEN "dump"
    ELSE IF kind = "crash" THEN "crashed"
    ELSE "loop"

\* A mutant: the sentinel row is passed over instead of ending the loop
pc_after_row_no_break(kind) ==
    IF kind \in {"ok", "break"} THEN "loop"
    ELSE IF kind = "invalid" THEN "raised"
    ELSE "crashed"

\* Where the loop goes after a row: on, out by break, or out by an exception
pc_after_row(kind) ==
    IF kind = "ok" THEN "loop"
    ELSE IF kind = "break" THEN "dump"
    ELSE IF kind = "invalid" THEN "raised"
    ELSE "crashed"

\* A mutant: the counter is not advanced
next_row_id_stuck(n) == n

\* row_id += 1
next_row_id(n) == n + 1

\* e.row_id = row_id
annotate(e, n) == [e EXCEPT !.row_id = n]

\* InvalidFileFormatException.__str__
exception_str(e) ==
    IF e.row_id # None THEN [text |-> e.msg, row |-> e.row_id]
    ELSE [text |-> e.msg, row |-> None]

\* click.echo writes to the file it is given; err only selects the default
echo_file(file, err) ==
    IF file # "" THEN file ELSE IF err THEN "stderr" ELSE "stdout"

Document(map) == [kind |-> "json", doc |-> Values(map), text |-> "", row |-> None]

Message(s) == [kind |-> "text", doc |-> <<>>, text |-> s.text, row |-> s.row]

----------------------------------------------------------------------------
(* Inputs                                                                  *)

\* Longest sheet (in data rows) whose rows are all drawn freely
MaxRows == 3

\* Rows up to MaxExtra cells wider than the fifteen columns read
MaxExtra == 1

\* Declared tax amounts up to MaxOff hundredths away from the exact tax
MaxOff == 2

BaseRow ==
    [w |-> RowWidth, c0 |-> Str("1"), key |-> "A", dt |-> "sale",
     em |-> Str("user@example.com"), ph |-> "111", tsys |-> "", n |-> "tea",
     p |-> Num(10000), q |-> Num(100), s |-> Num(12000), ts |-> "vat20",
     tv |-> Num(2000), smc |-> "full_payment", sco |-> "1"]

SecondOfA ==
    [BaseRow EXCEPT !.dt = "sale_refund", !.ph = "222", !.n = "cup",
                    !.p = StrNum(5000), !.q = StrNum(200), !.s = StrNum(11000),
                    !.ts = "vat10", !.tv = StrNum(1000), !.smc = "credit"]

FirstOfB ==
    [BaseRow EXCEPT !.key = "B", !.c0 = Num(7), !.dt = "sale_refund",
                    !.ph = "333", !.s = Num(500)]

NegativeOfB ==
    [BaseRow EXCEPT !.key = "B", !.ph = "444", !.p = Num(-10000),
                    !.s = Num(-12000), !.tv = Num(-2000)]

SentinelRow == [BaseRow EXCEPT !.c0 = Str("")]

NarrowRow == [BaseRow EXCEPT !.w = RowWidth - 1]

BadTaxRow == [BaseRow EXCEPT !.key = "C", !.tv = Num(2500)]

BadDtRow == [FirstOfB EXCEPT !.dt = "gift"]

SeqRows == {BaseRow, SecondOfA, FirstOfB, NegativeOfB, SentinelRow,
            NarrowRow, BadTaxRow, BadDtRow}

FirstCells == {Str(""), Str("1"), Num(7)}

NarrowRows ==
    {[BaseRow EXCEPT !.w = w, !.c0 = c] : w \in 0 .. RowWidth - 1, c \in FirstCells}

EmailCells == {Num(5), Str("")} \cup {Str(a) : a \in EmailTexts}

HeaderRows ==
    {[BaseRow EXCEPT !.w = w, !.c0 = c, !.key = k, !.dt = d, !.em = e] :
        w \in RowWidth .. RowWidth + MaxExtra, c \in FirstCells,
        k \in {"A", "B"}, d \in {"sale", "sale_refund", "gift"},
        e \in EmailCells}

PriceCells == {Num(10000), StrNum(5000), StrNum(-10000), Str("abc")}

QuantityCells == {Num(100), StrNum(200), StrNum(-100), Str("")}

SumCells == {Num(12000), Str("x")}

TaxCells ==
    {Num(v) : v \in (1000 - MaxOff .. 1000 + MaxOff)
                    \cup (2000 - MaxOff .. 2000 + MaxOff) \cup {-2000, 2500}}
    \cup {Str("abc")}

GoodRows ==
    {[BaseRow EXCEPT !.p = p, !.q = q, !.s = s, !.ts = r, !.tv = v, !.smc = m] :
        p \in PriceCells, q \in QuantityCells, s \in SumCells,
        r \in {"vat10", "vat20", "vat0"}, v \in TaxCells,
        m \in {"full_payment", "cash"}}

SweepRows == NarrowRows \cup HeaderRows \cup GoodRows

\* Sheets: every sequence of at most MaxRows rows of SeqRows, and every row
\* of SweepRows as the last row, alone or after an accepted row
Inputs ==
    UNION {[1 .. n -> SeqRows] : n \in 0 .. MaxRows}
    \cup {<<r>> : r \in SweepRows}
    \cup {<<FirstOfB, r>> : r \in SweepRows}

----------------------------------------------------------------------------
(* The run                                                                 *)

Init ==
    /\ rows \in Inputs
    /\ empty_sheet \in BOOLEAN
    /\ empty_sheet => rows = <<>>
    /\ out_is_stdout \in BOOLEAN
    /\ pc = "start"
    /\ pos = 0
    /\ receipts = <<>>
    /\ row_id = FirstRowId
    /\ uuid = 0
    /\ lookup = "none"
    /\ error = NoError
    /\ exc = ""
    /\ stdout = <<>>
    /\ stderr = <<>>
    /\ outfile = <<>>
    /\ exit_status = -1

\* rows = sheet.rows(); next(rows), StopIteration on a sheet without rows
SkipHeader ==
    /\ pc = "start"
    /\ IF empty_sheet
       THEN /\ error' = [msg |-> "Input spreadsheet is empty", row_id |-> None]
            /\ pc' = "raised"
       ELSE /\ pc' = "loop"
            /\ UNCHANGED error
    /\ UNCHANGED <<empty_sheet, rows, out_is_stdout, pos, receipts, row_id,
                   uuid, lookup, exc, stdout, stderr, outfile, exit_status>>

\* One iteration of "for row in rows", the except clause included
ProcessRow ==
    /\ pc = "loop"
    /\ pos < Len(rows)
    /\ \E answer \in MxOutcomes :
         LET r == row_outcome(receipts, uuid, rows[pos + 1], answer)
         IN  /\ pos' = pos + 1
             /\ receipts' = r.receipts
             /\ uuid' = r.uuid
             /\ lookup' = r.lookup
             /\ pc' = pc_after_row(r.kind)
             /\ row_id' = IF r.kind = "ok" THEN next_row_id(row_id) ELSE row_id
             /\ error' = IF r.kind = "invalid"
                         THEN annotate([msg |-> r.msg, row_id |-> None], row_id)
                         ELSE error
             /\ exc' = IF r.kind = "crash" THEN r.msg ELSE exc
    /\ UNCHANGED <<empty_sheet, rows, out_is_stdout, stdout, stderr, outfile,
                   exit_status>>

\* The row iterator is exhausted: the for loop ends
Exhausted ==
    /\ pc = "loop"
    /\ pos = Len(rows)
    /\ pc' = "dump"
    /\ UNCHANGED <<empty_sheet, rows, out_is_stdout, pos, receipts, row_id,
                   uuid, lookup, error, exc, stdout, stderr, outfile,
                   exit_status>>

\* json.dump of the receipts to output_file (the timestamp 't' is left out)
Dump ==
    /\ pc = "dump"
    /\ pc' = "returned"
    /\ IF out_is_stdout
       THEN /\ stdout' = Append(stdout, Document(receipts))
            /\ UNCHANGED outfile
       ELSE /\ outfile' = Append(outfile, Document(receipts))
            /\ UNCHANGED stdout
    /\ UNCHANGED <<empty_sheet, rows, out_is_stdout, pos, receipts, row_id,
                   uuid, lookup, error, exc, stderr, exit_status>>

\* except InvalidFileFormatException in main:
\* click.secho(f'File error: {exc}', err=True, file=sys.stdout, fg='red')
HandleError ==
    /\ pc = "raised"
    /\ pc' = "handled"
    /\ IF echo_file("stdout", TRUE) = "stdout"
       THEN /\ stdout' = Append(stdout, Message(exception_str(error)))
            /\ UNCHANGED stderr
       ELSE /\ stderr' = Append(stderr, Message(exception_str(error)))
            /\ UNCHANGED stdout
    /\ UNCHANGED <<empty_sheet, rows, out_is_stdout, pos, receipts, row_id,
                   uuid, lookup, error, exc, outfile, exit_status>>

\* main ends: it returns (status 0) after convert returned or after the
\* except clause ran; an exception no clause catches ends the process
\* with a traceback on sys.stderr and status 1
Exit ==
    /\ pc \in {"returned", "handled", "crashed"}
    /\ pc' = "exit"
    /\ IF pc = "crashed"
       THEN /\ exit_status' = 1
            /\ stderr' = Append(stderr, Message([text |-> exc, row |-> None]))
       ELSE /\ exit_status' = 0
            /\ UNCHANGED stderr
    /\ UNCHANGED <<empty_sheet, rows, out_is_stdout, pos, receipts, row_id,
                   uuid, lookup, error, exc, stdout, outfile>>

Next == SkipHeader \/ ProcessRow \/ Exhausted \/ Dump \/ HandleError \/ Exit

Spec == Init /\ [][Next]_vars

----------------------------------------------------------------------------
(* Vocabulary of the properties                                            *)

IsSentinelRow(r) == r.w > 0 /\ r.c0 = Str("")

OutputDest == IF out_is_stdout THEN stdout ELSE outfile

JsonWritten == \E x \in Range(stdout) \cup Range(outfile) : x.kind = "json"

ContradictionMsg == "Invalid i.tv value (contradicts with i.p, i.q and i.ts)"

\* The rows before the latest one taken from the iterator
Before == SubSeq(rows, 1, pos - 1)

\* The rows taken from the iterator, without the sentinel that ended the loop
AcceptedRows ==
    SubSeq(rows, 1, IF pos > 0 /\ IsSentinelRow(rows[pos]) THEN pos - 1 ELSE pos)

LineItem(r) ==
    [n |-> r.n, p |-> r.p.value, q |-> r.q.value, s |-> r.s.value,
     ts |-> r.ts, tv |-> r.tv.value, smc |-> r.smc, sco |-> r.sco]

RECURSIVE SumS(_)
SumS(items) ==
    IF items = <<>> THEN 0
    ELSE SumS(SubSeq(items, 1, Len(items) - 1)) + items[Len(items)].s

RECURSIVE FirstKeys(_)
FirstKeys(rs) ==
    IF rs = <<>> THEN <<>>
    ELSE LET front == FirstKeys(SubSeq(rs, 1, Len(rs) - 1))
             key == rs[Len(rs)].key
         IN  IF key \in Range(front) THEN front ELSE Append(front, key)

FirstIndex(rs, key) ==
    CHOOSE j \in DOMAIN rs :
        /\ rs[j].key = key
        /\ \A m \in DOMAIN rs : rs[m].key = key => j <= m

RECURSIVE ItemsOf(_, _)
ItemsOf(rs, key) ==
    IF rs = <<>> THEN <<>>
    ELSE LET front == ItemsOf(SubSeq(rs, 1, Len(rs) - 1), key)
         IN  IF rs[Len(rs)].key = key
             THEN Append(front, LineItem(rs[Len(rs)]))
             ELSE front

\* The reference group-by of accepted rows rs on the key column; the j-th
\* accepted row is the one that drew the j-th identifier
Reference(rs) ==
    [j \in 1 .. Len(FirstKeys(rs)) |->
        LET key == FirstKeys(rs)[j]
            first == rs[FirstIndex(rs, key)]
        IN  [id |-> FirstIndex(rs, key), dt |-> first.dt,
             cr |-> SumS(ItemsOf(rs, key)), ts |-> "OSN",
             i |-> ItemsOf(rs, key), em |-> first.em.text, ph |-> first.ph]]

----------------------------------------------------------------------------
(* Properties                                                              *)

\* C1: every document convert emits lists the reference group-by of the
\* accepted rows on the key column: one transaction per distinct key, in
\* first-appearance order, its items those of the key's rows in row order,
\* its header fields and identifier those of the first row bearing the key.
C1_GroupBy ==
    \A x \in Range(stdout) \cup Range(outfile) :
        x.kind = "json" => x.doc = Reference(AcceptedRows)

C1_Witness ==
    /\ pc = "exit"
    /\ JsonWritten
    /\ pos = 3
    /\ rows[1].key = rows[3].key
    /\ rows[2].key # rows[1].key
    /\ rows[1].dt # rows[3].dt
    /\ ~IsSentinelRow(rows[3])

\* C2: at every point of the run each transaction's total cr is the sum of
\* the s of the items in its list i, and a transaction a failing row has
\* just installed for a new key has total 0 and no item.
C2_RunningTotal ==
    /\ \A j \in DOMAIN receipts : receipts[j].v.cr = SumS(receipts[j].v.i)
    /\ (pc = "raised" /\ pos > 0
            /\ rows[pos].key \notin {rows[m].key : m \in 1 .. pos - 1})
       => \A j \in DOMAIN receipts :
            receipts[j].k = rows[pos].key
                => receipts[j].v.cr = 0 /\ receipts[j].v.i = <<>>

C2_Witness ==
    /\ pc = "raised"
    /\ Len(receipts) = 2
    /\ Len(receipts[1].v.i) = 2
    /\ receipts[1].v.cr = 23000
    /\ receipts[2].v.i = <<>>

\* C3: once a row has failed validation nothing has been and nothing is
\* dumped, and no later row is taken (the rows consumed are the accepted
\* ones and the failing one); a document is written only when every row up
\* to the end of the input or the sentinel was accepted.
C3_NoPartialOutput ==
    /\ error # NoError
        => /\ ~JsonWritten
           /\ ~empty_sheet => pos = (row_id - FirstRowId) + 1
    /\ JsonWritten
        => /\ error = NoError /\ exc = ""
           /\ pos = Len(rows) \/ IsSentinelRow(rows[pos])
           /\ row_id - FirstRowId = Len(AcceptedRows)

C3_Witness ==
    /\ pc = "exit"
    /\ error # NoError
    /\ pos = 2
    /\ Len(rows) = 3
    /\ Len(receipts) = 1
    /\ Len(receipts[1].v.i) = 1
    /\ ~JsonWritten

\* C4: inside the loop the counter is 2 plus the number of rows accepted; a
\* validation error raised on the k-th data row carries row number k + 1;
\* the error of the empty spreadsheet carries no row number.
C4_RowNumber ==
    /\ pc = "loop" => row_id = pos + FirstRowId
    /\ (error # NoError /\ ~empty_sheet) => error.row_id = pos + 1
    /\ (error # NoError /\ empty_sheet) => error.row_id = None

C4_Witness ==
    /\ pc = "handled"
    /\ pos = 3
    /\ error = [msg |-> ContradictionMsg, row_id |-> 4]

\* C5: a row whose first cell is the empty string ends the loop without
\* error; it is not extracted (no identifier is drawn for it, no lookup is
\* made), the receipts are those of the rows before it, no later row is
\* taken, and the receipts are emitted as a successful document.
C5_Sentinel ==
    \A j \in 1 .. pos :
        IsSentinelRow(rows[j])
            => /\ j = pos
               /\ pc \in {"dump", "returned", "exit"}
               /\ error = NoError /\ exc = ""
               /\ uuid = pos - 1
               /\ lookup = "none"
               /\ Values(receipts) = Reference(Before)
               /\ pc \in {"returned", "exit"}
                    => OutputDest = <<Document(receipts)>>
               /\ pc = "exit" => exit_status = 0

C5_Witness ==
    /\ pc = "exit"
    /\ pos = 2
    /\ Len(rows) = 3
    /\ IsSentinelRow(rows[2])
    /\ rows[3].w < RowWidth
    /\ Len(receipts) = 1
    /\ JsonWritten

NarrowNext == pc = "loop" /\ pos < Len(rows) /\ rows[pos + 1].w < RowWidth

\* C6 as stated: processing any row narrower than 15 cells fails with
\* "Invalid row width" and leaves the receipts unchanged.
C6_Original ==
    [][NarrowNext => /\ receipts' = receipts
                     /\ pc' = "raised"
                     /\ error'.msg = "Invalid row width"]_vars

\* C6 as amended: processing a row narrower than 15 cells leaves the
\* receipts unchanged and draws no identifier; it fails with "Invalid row
\* width" (and the row's number) when the row has a first cell that is not
\* the empty string, ends the loop without error when the first cell is the
\* empty string, and ends the run with an IndexError when the row has no
\* cell.
C6_NarrowRow ==
    [][NarrowNext =>
        /\ receipts' = receipts
        /\ uuid' = uuid
        /\ IF rows[pos + 1].w = 0
           THEN pc' = "crashed" /\ exc' = "IndexError" /\ error' = NoError
           ELSE IF rows[pos + 1].c0 = Str("")
           THEN pc' = "dump" /\ exc' = "" /\ error' = NoError
           ELSE /\ pc' = "raised" /\ exc' = ""
                /\ error' = [msg |-> "Invalid row width", row_id |-> pos + 2]]_vars

C6_Witness ==
    /\ pc = "raised"
    /\ pos = 2
    /\ rows[2].w = RowWidth - 1
    /\ rows[2].c0 # Str("")
    /\ error.msg = "Invalid row width"
    /\ Len(receipts) = 1
    /\ Len(receipts[1].v.i) = 1

\* C7 as stated: a lookup error other than NXDOMAIN, YXDOMAIN and NoAnswer
\* makes the e-mail valid: no error of any kind comes of it, and the row is
\* accepted when its line item is.
C7_Original ==
    lookup \in MxOther
        => /\ exc = ""
           /\ error.msg \notin {"Invalid i.em (e-mail address) value: invalid e-mail format",
                                "Invalid i.em (e-mail address) value: domain name does not exist, or does not have MX record"}

\* C7 as amended: a lookup error other than NXDOMAIN, YXDOMAIN and NoAnswer
\* is not caught: it leaves check_email_domain_mx, process_em and convert
\* as that exception, the row is not accepted, nothing is dumped, it is no
\* validation error (main does not handle it) and the process ends with a
\* traceback and a failure status; the e-mail is treated as valid only when
\* the lookup returns an answer.
C7_LookupError ==
    /\ lookup \in MxOther
        => /\ exc = lookup
           /\ pc \in {"crashed", "exit"}
           /\ error = NoError
           /\ ~JsonWritten
           /\ row_id = (pos - 1) + FirstRowId
           /\ Values(receipts) = Reference(Before)
           /\ pc = "exit" => exit_status = 1 /\ stdout = <<>> /\ Len(stderr) = 1
    /\ (lookup # "none" /\ exc = "" /\ error.msg # "Invalid i.em (e-mail address) value: domain name does not exist, or does not have MX record")
        => lookup = MxAnswer

C7_Witness ==
    /\ pc = "exit"
    /\ lookup = "Timeout"
    /\ exc = "Timeout"
    /\ pos = 2
    /\ Len(receipts) = 1

\* C8 as stated: a run that ends on a validation error exits with a status
\* other than that of a successful conversion (0), with the error text on
\* the diagnostic channel and none of it on the output destination.
C8_Original ==
    (pc = "exit" /\ error # NoError)
        => /\ exit_status # 0
           /\ \E x \in Range(stderr) : x.kind = "text" /\ x.text = error.msg
           /\ \A x \in Range(OutputDest) : x.kind # "text"

\* C9 as stated: a row whose fields all parsed is rejected by check_good
\* exactly when |price * quantity * rate - tax| exceeds 0.01 (here in units
\* of 10^-5), and a rejected line item is in no transaction.
C9_Original ==
    (pos > 0 /\ lookup = MxAnswer /\ get_row_good_error(rows[pos]) = "")
        => LET r == rows[pos]
               rate == IF r.ts = "vat10" THEN 1 ELSE 2
               diff == Abs(r.p.value * r.q.value * rate - 1000 * r.tv.value)
           IN  /\ (error.msg = ContradictionMsg) <=> (diff > 1000)
               /\ error.msg = ContradictionMsg
                    => \/ Values(receipts) = Reference(Before)
                       \/ /\ receipts # <<>>
                          /\ receipts[Len(receipts)].v.i = <<>>
                          /\ receipts[Len(receipts)].v.cr = 0
                          /\ SubSeq(Values(receipts), 1, Len(receipts) - 1)
                                = Reference(Before)

\* C10 as stated: every line item in a transaction has price >= 0 and
\* quantity >= 0.
C10_Original ==
    \A j \in DOMAIN receipts :
        \A m \in DOMAIN receipts[j].v.i :
            receipts[j].v.i[m].p >= 0 /\ receipts[j].v.i[m].q >= 0

====
